---- MODULE Spec2Model ----
(***************************************************************************)
(* The AI provider manager (src/ai-providers/provider-manager.js) and the  *)
(* agent facade that calls it (src/unnamed/part_006, agents/base/agent.js) *)
(* as a state machine.  One control thread issues operations; an operation *)
(* that awaits (adapter initialisation, adapter call) is split at its      *)
(* await points, and the thread's position is kept in pc.                  *)
(***************************************************************************)
EXTENDS Integers, Sequences, FiniteSets, TLC

VARIABLES
    env,             \* identities whose *_API_KEY is present in process.env
    providers,       \* this.providers: a Map, kept in insertion order
    activeProvider,  \* this.activeProvider
    initMode,        \* this.initMode
    forcedProvider,  \* this.forcedProvider
    pc,              \* where the control thread is suspended
    frame,           \* locals of the operation in flight
    pending,         \* safeInitializeProvider promises not yet settled
    inits,           \* initialize() invocations of the operation in flight
    calls,           \* adapter calls of the request in flight
    pre,             \* manager state when the operation in flight started
    result,          \* what the last finished operation returned or threw
    wasForced,       \* an initializeSingleProvider call has succeeded
    afterInit,       \* the last operation was an initializeProviders that ran
    other,           \* a second caller's request on the same manager
    main,            \* main(): where it is and how the process ended
    claude,          \* a prepareClaudeMessages call: its input and output
    scraper,         \* a ScrapingAgent.run in progress
    search,          \* a WebSearchAgent.searchWithRetry in progress
    planner          \* a ResearchPlannerAgent.run in progress

vars == <<env, providers, activeProvider, initMode, forcedProvider,
          pc, frame, pending, inits, calls, pre, result,
          wasForced, afterInit, other, main, claude, scraper, search, planner>>

\* The parts of the program outside the manager.
agents == <<main, claude, scraper, search, planner>>

manager == <<providers, activeProvider, initMode, forcedProvider>>

----------------------------------------------------------------------------
(* Values *)

NULL == "null"

\* The identities the manager knows, in the order initializeProviders
\* registers them.
InitOrder == <<"openai", "gemini", "claude">>

ProviderKeys == {InitOrder[i] : i \in DOMAIN InitOrder}

\* Names a caller may pass: the three identities, one in another case, one
\* unsupported name and the empty string.
InputNames == ProviderKeys \cup {"OpenAI", "mistral", ""}

\* The tools argument of a request: null, [] or a non-empty list.
ToolsInputs == {NULL, "empty", "some"}

\* String.prototype.toLowerCase on the names above.
ToLower(s) == IF s = "OpenAI" THEN "openai" ELSE s

\* JavaScript truthiness of a name-or-null value.
Truthy(x) == x # NULL /\ x # ""

\* The name each adapter class passes to super(...).
ClassName(k) ==
    CASE k = "openai" -> "OpenAI"
      [] k = "gemini" -> "Gemini"
      [] k = "claude" -> "Claude"

\* BaseAIProvider's constructor: a named instance with client = null.
BaseAIProvider(k) == [name |-> ClassName(k), client |-> FALSE]

\* supportsTools() of the three adapter classes.
supportsTools(inst) == inst.name \in {"OpenAI", "Gemini", "Claude"}

\* The synchronous part of initialize(): the vendor client is constructed
\* and stored, unless its constructor throws.
initialize(inst, ctorOk) == [inst EXCEPT !.client = ctorOk]

\* Whether initialize() has a vendor round trip after the client is stored
\* (only OpenAI lists the models).
HasReachabilityCheck(inst) == inst.name = "OpenAI"

----------------------------------------------------------------------------
(* The Map this.providers, as a sequence of entries in insertion order *)

Keys(m) == {m[i].key : i \in DOMAIN m}

Has(m, k) == k \in Keys(m)

Get(m, k) == m[CHOOSE i \in DOMAIN m : m[i].key = k].inst

MapSet(m, k, v) ==
    IF Has(m, k)
    THEN [i \in DOMAIN m |-> IF m[i].key = k THEN [key |-> k, inst |-> v] ELSE m[i]]
    ELSE Append(m, [key |-> k, inst |-> v])

MapDelete(m, k) == SelectSeq(m, LAMBDA e : e.key # k)

FirstKey(m) == m[1].key

----------------------------------------------------------------------------
(* Results and errors *)

NoValue == [provider |-> NULL, method |-> NULL, tools |-> NULL]

NoError == [kind |-> NULL, name |-> NULL]

Err(kind, name) == [kind |-> kind, name |-> name]

\* standardizeResponse: the response names the adapter that produced it.
Response(inst, method, tools) ==
    [provider |-> inst.name, method |-> method, tools |-> tools]

\* handleError: the error names the adapter that produced it.
handleError(inst) == Err("ProviderError", inst.name)

Returned(op, arg, value) ==
    [op |-> op, arg |-> arg, status |-> "ok", value |-> value, error |-> NoError]

Threw(op, arg, error) ==
    [op |-> op, arg |-> arg, status |-> "error", value |-> NoValue, error |-> error]

NoFrame ==
    [entry |-> NULL, stage |-> NULL, reqTools |-> NULL, tools |-> NULL,
     preferred |-> NULL, originalProvider |-> NULL, key |-> NULL,
     callee |-> BaseAIProvider("openai"), method |-> NULL]

Snapshot ==
    [providers |-> providers, activeProvider |-> activeProvider,
     initMode |-> initMode, forcedProvider |-> forcedProvider]

\* An entry of the calls or inits history: what was invoked and how it ended.
Outcome(ok) == IF ok THEN "ok" ELSE "threw"

SettleLast(h, ok) == [h EXCEPT ![Len(h)].outcome = Outcome(ok)]

SettleKey(h, k, ok) ==
    [i \in DOMAIN h |-> IF h[i].key = k /\ h[i].outcome = "pending"
                        THEN [h[i] EXCEPT !.outcome = Outcome(ok)] ELSE h[i]]

Started(k) == [key |-> k, outcome |-> "pending"]

NoSnapshot ==
    [providers |-> <<>>, activeProvider |-> NULL,
     initMode |-> NULL, forcedProvider |-> NULL]

NoResult == Returned(NULL, NULL, NoValue)

\* No second caller.
NoOther == [pc |-> "off"]

\* A part of the program that is not running.
Off == [pc |-> "off"]

AgentsOff == main = Off /\ claude = Off /\ scraper = Off /\ search = Off /\ planner = Off

----------------------------------------------------------------------------
(* Construction *)

Init ==
    /\ env \in SUBSET ProviderKeys
    /\ providers = <<>>
    /\ activeProvider = NULL
    /\ initMode = "auto"
    /\ forcedProvider = NULL
    /\ pc = "idle"
    /\ frame = NoFrame
    /\ pending = {}
    /\ inits = <<>>
    /\ calls = <<>>
    /\ pre = NoSnapshot
    /\ result = NoResult
    /\ wasForced = FALSE
    /\ afterInit = FALSE
    /\ other = NoOther
    /\ AgentsOff

----------------------------------------------------------------------------
(* initializeSingleProvider *)

\* The switch of lines 28-58: which error, if any, it throws.
SingleProviderError(providerName, cfgKey) ==
    LET k == ToLower(providerName) IN
    IF k \notin ProviderKeys THEN Err("UnknownProvider", providerName)
    ELSE IF ~(cfgKey \/ k \in env) THEN Err("ApiKeyNotFound", ClassName(k))
    ELSE NoError

\* Variant: the Map is not cleared before the new instance is set.
ClearAndSet_NoClear(m, k, inst) == MapSet(m, k, inst)

\* Lines 60-61: the registry once the new instance is registered.
ClearAndSet(m, k, inst) == MapSet(<<>>, k, inst)

\* Line 71: the registry after a failed initialize().
DeleteFailed(m, k) == MapDelete(m, k)

\* Variant: providers.clear() runs before the switch validates the name.
ISP_Throw_ClearsFirst(providerName, cfgKey) ==
    /\ SingleProviderError(providerName, cfgKey) # NoError
    /\ initMode' = "manual"
    /\ forcedProvider' = providerName
    /\ providers' = <<>>
    /\ result' = Threw("initializeSingleProvider", providerName,
                       SingleProviderError(providerName, cfgKey))
    /\ pc' = "done"
    /\ UNCHANGED <<activeProvider, frame, pending>>

\* Lines 19-58, a call that throws in the switch.
ISP_Throw(providerName, cfgKey) ==
    /\ SingleProviderError(providerName, cfgKey) # NoError
    /\ initMode' = "manual"
    /\ forcedProvider' = providerName
    /\ result' = Threw("initializeSingleProvider", providerName,
                       SingleProviderError(providerName, cfgKey))
    /\ pc' = "done"
    /\ UNCHANGED <<providers, activeProvider, frame, pending>>

\* Lines 19-64, a call that reaches `await provider.initialize()`.
ISP_Register(providerName, cfgKey) ==
    /\ SingleProviderError(providerName, cfgKey) = NoError
    /\ initMode' = "manual"
    /\ forcedProvider' = providerName
    /\ \E ctorOk \in BOOLEAN :
          providers' = ClearAndSet(providers, ToLower(providerName),
                           initialize(BaseAIProvider(ToLower(providerName)), ctorOk))
    /\ pc' = "isp_init"
    /\ frame' = [NoFrame EXCEPT !.entry = "initializeSingleProvider",
                                !.preferred = providerName,
                                !.key = ToLower(providerName)]
    /\ UNCHANGED <<activeProvider, pending, result>>

initializeSingleProvider(providerName, cfgKey) ==
    /\ pc = "idle"
    /\ afterInit' = FALSE
    /\ pre' = Snapshot
    /\ calls' = <<>>
    /\ inits' = IF SingleProviderError(providerName, cfgKey) = NoError
                THEN <<Started(ToLower(providerName))>> ELSE <<>>
    /\ \/ ISP_Throw(providerName, cfgKey)
       \/ ISP_Register(providerName, cfgKey)
    /\ UNCHANGED <<env, other, agents, wasForced>>

\* Outcomes `await provider.initialize()` can have for a registered instance.
InitOutcomes(inst) ==
    IF ~inst.client THEN {FALSE}
    ELSE IF HasReachabilityCheck(inst) THEN BOOLEAN
    ELSE {TRUE}

\* Lines 63-73: the awaited initialize() settles.
ISP_Settle(ok) ==
    /\ pc = "isp_init"
    /\ ok \in InitOutcomes(Get(providers, frame.key))
    /\ IF ok
       THEN /\ activeProvider' = frame.key
            /\ providers' = providers
            /\ result' = Returned("initializeSingleProvider", frame.preferred, NoValue)
       ELSE /\ providers' = DeleteFailed(providers, frame.key)
            /\ activeProvider' = activeProvider
            /\ result' = Threw("initializeSingleProvider", frame.preferred,
                               handleError(Get(providers, frame.key)))
    /\ pc' = "done"
    /\ inits' = SettleLast(inits, ok)
    /\ wasForced' = (wasForced \/ ok)
    /\ UNCHANGED <<env, other, agents, afterInit, initMode, forcedProvider, frame, pending,
                   calls, pre>>

----------------------------------------------------------------------------
(* initializeProviders *)

defaultProvider == "openai"

\* Line 81: the forced-mode test.
SkipsAutoInit == initMode = "manual" /\ Truthy(forcedProvider)

\* Lines 89-114: every identity with a credential is set in the Map and its
\* initialize() is started, in the fixed order.
RECURSIVE RegisterAll(_, _, _)
RegisterAll(m, i, ctorOk) ==
    IF i > Len(InitOrder) THEN m
    ELSE LET k == InitOrder[i] IN
         IF k \in env
         THEN RegisterAll(MapSet(m, k, initialize(BaseAIProvider(k), ctorOk[k])),
                          i + 1, ctorOk)
         ELSE RegisterAll(m, i + 1, ctorOk)

Launched ==
    LET ks == SelectSeq(InitOrder, LAMBDA k : k \in env)
    IN  [i \in DOMAIN ks |-> Started(ks[i])]

\* Lines 79-117, up to `await Promise.allSettled(initPromises)`.
initializeProviders ==
    /\ pc = "idle"
    /\ pre' = Snapshot
    /\ calls' = <<>>
    /\ IF SkipsAutoInit
       THEN /\ result' = Returned("initializeProviders", "skipped", NoValue)
            /\ inits' = <<>>
            /\ pc' = "done"
            /\ UNCHANGED <<providers, initMode, frame, pending>>
       ELSE /\ initMode' = "auto"
            /\ \E ctorOk \in [env -> BOOLEAN] :
                  providers' = RegisterAll(providers, 1, ctorOk)
            /\ pending' = env
            /\ inits' = Launched
            /\ pc' = "ip_join"
            /\ frame' = [NoFrame EXCEPT !.entry = "initializeProviders",
                                        !.stage = IF afterInit THEN "repeat" ELSE "first"]
            /\ UNCHANGED result
    /\ UNCHANGED <<env, other, agents, wasForced, afterInit, activeProvider, forcedProvider>>

\* Variant: a provider whose initialize() failed stays registered.
AfterSafeInit_Keep(m, name, ok) == m

\* Lines 139-141: the registry after safeInitializeProvider's outcome.
AfterSafeInit(m, name, ok) == IF ok THEN m ELSE MapDelete(m, name)

\* Lines 135-143: one safeInitializeProvider promise settles.
safeInitializeProvider(name, ok) ==
    /\ pc = "ip_join"
    /\ name \in pending
    /\ Has(providers, name)
    /\ ok \in InitOutcomes(Get(providers, name))
    /\ providers' = AfterSafeInit(providers, name, ok)
    /\ pending' = pending \ {name}
    /\ inits' = SettleKey(inits, name, ok)
    /\ UNCHANGED <<env, other, agents, wasForced, afterInit, activeProvider, initMode,
                   forcedProvider, pc, frame,
                   calls, pre, result>>

\* Variant: the first available provider other than the current one is used.
ActiveAfterInit_Rotates(m, active) ==
    IF Has(m, defaultProvider) THEN defaultProvider
    ELSE IF Keys(m) \ {active} # {}
    THEN SelectSeq(m, LAMBDA e : e.key # active)[1].key
    ELSE active

\* Lines 120-125: the active provider chosen after the join.
ActiveAfterInit(m, active) ==
    IF Has(m, defaultProvider) THEN defaultProvider
    ELSE IF Len(m) > 0 THEN FirstKey(m)
    ELSE active

\* Variant: the join resolves as soon as one promise has settled.
AllSettled_Race(p) == p = {} \/ p # env

\* Line 117: Promise.allSettled resolves once every promise has settled.
AllSettled(p) == p = {}

\* Lines 117-130: the code after the join.
IP_Finish ==
    /\ pc = "ip_join"
    /\ AllSettled(pending)
    /\ activeProvider' = ActiveAfterInit(providers, activeProvider)
    /\ result' = Returned("initializeProviders", "ran", NoValue)
    /\ pc' = "done"
    /\ afterInit' = TRUE
    /\ UNCHANGED <<env, other, agents, wasForced, providers, initMode, forcedProvider, frame,
                   pending, inits,
                   calls, pre>>

----------------------------------------------------------------------------
(* Selection and lookup *)

\* Line 149: the test that makes getActiveProvider throw.
NoActiveProvider(m, active) == ~Truthy(active) \/ ~Has(m, active)

\* Lines 148-154, when it returns.
getActiveProvider == Get(providers, activeProvider)

isProviderAvailable(name) == Has(providers, name)

\* Variant: the selection is assigned without the registry test.
setActiveProvider_Unchecked(name) ==
    /\ pc = "idle"
    /\ afterInit' = FALSE
    /\ pre' = Snapshot
    /\ calls' = <<>>
    /\ inits' = <<>>
    /\ activeProvider' = name
    /\ result' = Returned("setActiveProvider", name, NoValue)
    /\ pc' = "done"
    /\ UNCHANGED <<env, other, agents, wasForced, providers, initMode, forcedProvider, frame,
                   pending>>

\* Lines 183-189.
setActiveProvider(name) ==
    /\ pc = "idle"
    /\ afterInit' = FALSE
    /\ pre' = Snapshot
    /\ calls' = <<>>
    /\ inits' = <<>>
    /\ IF ~Has(providers, name)
       THEN /\ result' = Threw("setActiveProvider", name, Err("NotAvailable", name))
            /\ UNCHANGED activeProvider
       ELSE /\ activeProvider' = name
            /\ result' = Returned("setActiveProvider", name, NoValue)
    /\ pc' = "done"
    /\ UNCHANGED <<env, other, agents, wasForced, providers, initMode, forcedProvider, frame,
                   pending>>

----------------------------------------------------------------------------
(* Requests: the manager's entry points and the adapter call they await *)

\* `tools && tools.length > 0` of lines 256 and 268.
NonEmpty(tools) == tools = "some"

\* Variant: the capability flag is not consulted.
WithToolsMethod_Always(inst) == "chatCompletionWithTools"

\* Lines 216-225: the adapter method chatCompletionWithTools ends up calling.
WithToolsMethod(inst) ==
    IF ~supportsTools(inst) THEN "chatCompletion" ELSE "chatCompletionWithTools"

\* The adapter method a manager entry point calls.
ManagerMethod(inst, entryPoint) ==
    IF entryPoint = "chatCompletionWithTools" THEN WithToolsMethod(inst)
    ELSE "chatCompletion"

\* Lines 256-260 and 268-272: the entry point switchProviderWithFallback uses.
SwitchEntryPoint(tools) ==
    IF NonEmpty(tools) THEN "chatCompletionWithTools" ELSE "chatCompletion"

\* What the adapter is handed as its tools argument.
ToolsSent(method, tools) == IF method = "chatCompletionWithTools" THEN tools ELSE NULL

\* The response of a successful adapter call in flight.
CallResponse(fr) == Response(fr.callee, fr.method, ToolsSent(fr.method, fr.tools))

\* A manager entry point, entered with `active` as this.activeProvider and
\* past getActiveProvider: the adapter call is issued and awaited.  `sofar`
\* are the adapter calls the request has made before.
Invoke(fr, entryPoint, tools, active, sofar) ==
    LET inst == Get(providers, active)
        method == ManagerMethod(inst, entryPoint)
    IN  /\ pc' = "call"
        /\ frame' = [fr EXCEPT !.key = active, !.callee = inst, !.method = method,
                               !.tools = tools]
        /\ calls' = Append(sofar, [key |-> active, method |-> method,
                                   outcome |-> "pending"])
        /\ UNCHANGED result

\* The operation in flight ends, returning a value or throwing.
Finish(fr, res, sofar) ==
    /\ pc' = "done"
    /\ frame' = fr
    /\ result' = res
    /\ calls' = sofar

\* Variant: a missing selection is reported as setActiveProvider reports it.
ManagerEntry_NotAvailable(fr, entryPoint, tools, active, sofar) ==
    IF NoActiveProvider(providers, active)
    THEN Finish(fr, Threw(fr.entry, fr.preferred, Err("NotAvailable", active)), sofar)
    ELSE Invoke(fr, entryPoint, tools, active, sofar)

\* Lines 208-211 and 216-225, entered with `active` as this.activeProvider.
ManagerEntry(fr, entryPoint, tools, active, sofar) ==
    IF NoActiveProvider(providers, active)
    THEN Finish(fr, Threw(fr.entry, fr.preferred, Err("NoActiveProvider", initMode)),
                sofar)
    ELSE Invoke(fr, entryPoint, tools, active, sofar)

\* A request made on the manager directly.
ManagerRequest(entryPoint, tools) ==
    /\ pc = "idle"
    /\ afterInit' = FALSE
    /\ pre' = Snapshot
    /\ inits' = <<>>
    /\ ManagerEntry([NoFrame EXCEPT !.entry = entryPoint, !.stage = "direct",
                                    !.reqTools = tools],
                    entryPoint, tools, activeProvider, <<>>)
    /\ UNCHANGED <<env, other, agents, wasForced, manager, pending>>

chatCompletion == ManagerRequest("chatCompletion", NULL)

chatCompletionWithTools(tools) == ManagerRequest("chatCompletionWithTools", tools)

\* The awaited adapter call of a direct manager request settles.
DirectReturn(ok) ==
    /\ pc = "call"
    /\ frame.stage = "direct"
    /\ Finish(frame,
              IF ok THEN Returned(frame.entry, frame.preferred, CallResponse(frame))
                    ELSE Threw(frame.entry, frame.preferred, handleError(frame.callee)),
              SettleLast(calls, ok))
    /\ UNCHANGED <<env, other, agents, wasForced, afterInit, manager, pending, inits, pre>>

----------------------------------------------------------------------------
(* switchProviderWithFallback, and the agent facade around it *)

IsAgentEntry(entry) == entry \in {"Agent.chatCompletion", "Agent.chatCompletionWithTools"}

\* The manager entry point the agent's default path calls (agent.js 63, 88).
AgentDefaultEntryPoint(entry) ==
    IF entry = "Agent.chatCompletionWithTools" THEN "chatCompletionWithTools"
    ELSE "chatCompletion"

\* The tools switchProviderWithFallback is handed: its caller's, or what the
\* agent passes (null from Agent.chatCompletion: agent.js 55, 80).
SwitchTools(entry, tools) ==
    IF entry = "Agent.chatCompletion" THEN NULL ELSE tools

\* agent.js 63 and 88: the agent calls the manager's default entry point.
AgentDefault(fr, active, sofar) ==
    ManagerEntry([fr EXCEPT !.stage = "default"], AgentDefaultEntryPoint(fr.entry),
                 fr.reqTools, active, sofar)

\* switchProviderWithFallback threw `error`: a top-level caller receives it,
\* the agent catches it (agent.js 58-60, 83-85) and takes its default path.
SwitchThrows(fr, error, active, sofar) ==
    IF IsAgentEntry(fr.entry)
    THEN AgentDefault(fr, active, sofar)
    ELSE Finish(fr, Threw(fr.entry, fr.preferred, error), sofar)

\* Variant: an unregistered preferred provider is served by the current one.
SwitchStart_UsesActive(entry, preferredProvider, tools) ==
    LET fr == [NoFrame EXCEPT !.entry = entry, !.stage = "fallback",
                              !.reqTools = tools, !.preferred = preferredProvider,
                              !.originalProvider = activeProvider]
    IN  IF isProviderAvailable(preferredProvider)
        THEN /\ activeProvider' = preferredProvider
             /\ Invoke([fr EXCEPT !.stage = "preferred"],
                       SwitchEntryPoint(SwitchTools(entry, tools)),
                       SwitchTools(entry, tools), preferredProvider, <<>>)
        ELSE /\ UNCHANGED activeProvider
             /\ ManagerEntry(fr, SwitchEntryPoint(SwitchTools(entry, tools)),
                             SwitchTools(entry, tools), activeProvider, <<>>)

\* Lines 249-261 and 276: the call up to its first await, or to the throw
\* of line 276 when the preferred provider is not registered.
SwitchStart(entry, preferredProvider, tools) ==
    LET fr == [NoFrame EXCEPT !.entry = entry, !.stage = "preferred",
                              !.reqTools = tools, !.preferred = preferredProvider,
                              !.originalProvider = activeProvider]
    IN  IF isProviderAvailable(preferredProvider)
        THEN /\ activeProvider' = preferredProvider
             /\ Invoke(fr, SwitchEntryPoint(SwitchTools(entry, tools)),
                       SwitchTools(entry, tools), preferredProvider, <<>>)
        ELSE /\ UNCHANGED activeProvider
             /\ SwitchThrows(fr, Err("NoAvailableProvider", NULL), activeProvider, <<>>)

switchProviderWithFallback(preferredProvider, tools) ==
    /\ pc = "idle"
    /\ afterInit' = FALSE
    /\ pre' = Snapshot
    /\ inits' = <<>>
    /\ SwitchStart("switchProviderWithFallback", preferredProvider, tools)
    /\ UNCHANGED <<env, other, agents, wasForced, providers, initMode, forcedProvider, pending>>

\* Variant: the selection is put back once the preferred call has succeeded.
AfterPreferredSuccess_Restore(active, originalProvider) == originalProvider

\* Line 257/259: a successful preferred call returns at once; the selection
\* made at line 255 stays.
AfterPreferredSuccess(active, originalProvider) == active

\* Line 266: the test that guards the fallback.
CanFallBack(m, originalProvider) ==
    Truthy(originalProvider) /\ Has(m, originalProvider)

\* Variant: the fallback does not reselect the original provider.
FallbackTarget_Preferred(m, originalProvider, preferredProvider) == preferredProvider

\* Variant: the fallback goes to a registered provider not tried yet.
FallbackTarget_Third(m, originalProvider, preferredProvider) ==
    IF Keys(m) \ {originalProvider, preferredProvider} # {}
    THEN CHOOSE k \in Keys(m) \ {originalProvider, preferredProvider} : TRUE
    ELSE originalProvider

\* Line 267: the provider the fallback selects.
FallbackTarget(m, originalProvider, preferredProvider) == originalProvider

\* Lines 256-274: the awaited call through the preferred provider settles.
PreferredReturn(ok) ==
    /\ pc = "call"
    /\ frame.stage = "preferred"
    /\ IF ok
       THEN /\ activeProvider' = AfterPreferredSuccess(activeProvider, frame.originalProvider)
            /\ Finish(frame, Returned(frame.entry, frame.preferred, CallResponse(frame)),
                      SettleLast(calls, ok))
       ELSE IF CanFallBack(providers, frame.originalProvider)
       THEN /\ activeProvider' =
                   FallbackTarget(providers, frame.originalProvider, frame.preferred)
            /\ Invoke([frame EXCEPT !.stage = "fallback"],
                      SwitchEntryPoint(frame.tools), frame.tools,
                      FallbackTarget(providers, frame.originalProvider, frame.preferred),
                      SettleLast(calls, ok))
       ELSE /\ UNCHANGED activeProvider
            /\ SwitchThrows(frame, Err("NoAvailableProvider", NULL), activeProvider,
                            SettleLast(calls, ok))
    /\ UNCHANGED <<env, other, agents, wasForced, afterInit, providers, initMode, forcedProvider,
                   pending, inits, pre>>

\* Lines 268-272: the awaited fallback call settles; its error is not caught.
FallbackReturn(ok) ==
    /\ pc = "call"
    /\ frame.stage = "fallback"
    /\ IF ok
       THEN Finish(frame, Returned(frame.entry, frame.preferred, CallResponse(frame)),
                   SettleLast(calls, ok))
       ELSE SwitchThrows(frame, handleError(frame.callee), activeProvider,
                         SettleLast(calls, ok))
    /\ UNCHANGED <<env, other, agents, wasForced, afterInit, manager, pending, inits, pre>>

\* agent.js 44-64 and 69-89.
AgentRequest(entry, preferredProvider, tools) ==
    /\ pc = "idle"
    /\ afterInit' = FALSE
    /\ pre' = Snapshot
    /\ inits' = <<>>
    /\ IF Truthy(preferredProvider)
       THEN SwitchStart(entry, preferredProvider, tools)
       ELSE /\ UNCHANGED activeProvider
            /\ AgentDefault([NoFrame EXCEPT !.entry = entry, !.reqTools = tools,
                                            !.preferred = preferredProvider,
                                            !.originalProvider = activeProvider],
                            activeProvider, <<>>)
    /\ UNCHANGED <<env, other, agents, wasForced, providers, initMode, forcedProvider, pending>>

Agent_chatCompletion(preferredProvider) ==
    AgentRequest("Agent.chatCompletion", preferredProvider, NULL)

Agent_chatCompletionWithTools(preferredProvider, tools) ==
    AgentRequest("Agent.chatCompletionWithTools", preferredProvider, tools)

\* Variant: the agent calls the default entry point again when it fails.
DefaultReturn_Retry(ok) ==
    /\ pc = "call"
    /\ frame.stage = "default"
    /\ IF ok
       THEN Finish(frame, Returned(frame.entry, frame.preferred, CallResponse(frame)),
                   SettleLast(calls, ok))
       ELSE IF Len(calls) < 5
       THEN Invoke(frame, AgentDefaultEntryPoint(frame.entry), frame.reqTools,
                   activeProvider, SettleLast(calls, ok))
       ELSE Finish(frame, Threw(frame.entry, frame.preferred, handleError(frame.callee)),
                   SettleLast(calls, ok))
    /\ UNCHANGED <<env, other, agents, wasForced, afterInit, manager, pending, inits, pre>>

\* agent.js 63 and 88: the awaited default call settles.
DefaultReturn(ok) ==
    /\ pc = "call"
    /\ frame.stage = "default"
    /\ Finish(frame,
              IF ok THEN Returned(frame.entry, frame.preferred, CallResponse(frame))
                    ELSE Threw(frame.entry, frame.preferred, handleError(frame.callee)),
              SettleLast(calls, ok))
    /\ UNCHANGED <<env, other, agents, wasForced, afterInit, manager, pending, inits, pre>>

----------------------------------------------------------------------------
(* Agent.executeToolCall and the tools an agent registers *)

\* JavaScript values the tools produce.
Str(s) == [type |-> "string", v |-> s]

Num(n) == [type |-> "number", v |-> n]

Obj(fields) == [type |-> "object", fields |-> fields]

Arr(items) == [type |-> "array", items |-> items]

JSNull == [type |-> "null"]

Undefined == [type |-> "undefined"]

\* The argument strings a tool call carries.
PlanArgs == "{\"short_summary\":\"s\",\"details\":\"d\"}"

IdArgs == "{\"id\":1}"

ArgStrings == {PlanArgs, IdArgs, "{}", "null", "not json"}

\* JSON.parse on those strings: the value, or the SyntaxError it throws.
JSON_parse(text) ==
    IF text = PlanArgs
    THEN [ok |-> TRUE, value |-> Obj(<<<<"short_summary", Str("s")>>,
                                       <<"details", Str("d")>>>>)]
    ELSE IF text = IdArgs THEN [ok |-> TRUE, value |-> Obj(<<<<"id", Num("1")>>>>)]
    ELSE IF text = "{}" THEN [ok |-> TRUE, value |-> Obj(<<>>)]
    ELSE IF text = "null" THEN [ok |-> TRUE, value |-> JSNull]
    ELSE [ok |-> FALSE, value |-> Undefined]

\* Property access args.name on a parsed object.
Field(obj, name) ==
    IF \E i \in DOMAIN obj.fields : obj.fields[i][1] = name
    THEN obj.fields[CHOOSE i \in DOMAIN obj.fields : obj.fields[i][1] = name][2]
    ELSE Undefined

\* JSON.stringify, as the sequence of the pieces of the string it builds.
RECURSIVE JSON_stringify(_)
RECURSIVE Members(_)
RECURSIVE Items(_)
Members(fields) ==
    IF fields = <<>> THEN <<>>
    ELSE (IF fields[1][2] = Undefined THEN <<>>
          ELSE <<"\"", fields[1][1], "\"", ":">> \o JSON_stringify(fields[1][2])
               \o (IF Len(fields) > 1 THEN <<",">> ELSE <<>>))
         \o Members(Tail(fields))

Items(items) ==
    IF items = <<>> THEN <<>>
    ELSE JSON_stringify(items[1]) \o (IF Len(items) > 1 THEN <<",">> ELSE <<>>)
         \o Items(Tail(items))

JSON_stringify(v) ==
    IF v.type = "string" THEN <<"\"", v.v, "\"">>
    ELSE IF v.type = "number" THEN <<v.v>>
    ELSE IF v.type = "null" THEN <<"null">>
    ELSE IF v.type = "array" THEN <<"[">> \o Items(v.items) \o <<"]">>
    ELSE <<"{">> \o Members(v.fields) \o <<"}">>

\* How a tool's execute ends.
ToolReturns(v) == [threw |-> FALSE, value |-> v, message |-> ""]

ToolThrows(message) == [threw |-> TRUE, value |-> Undefined, message |-> message]

\* The object the tools return from their own catch blocks.
ErrorObject(message) == Obj(<<<<"status", Str("error")>>, <<"message", Str(message)>>>>)

\* The tools: the three of ResearchPlannerAgent, and a Tool that does not
\* override execute.
ResearchTools == {"store_research_plan", "get_research_plans", "delete_research_plan"}

PlainTool == "plain_tool"

ToolNames == ResearchTools \cup {PlainTool}

\* A row of research_plans as database.js resolves it.
PlanRow(summary, details) ==
    Obj(<<<<"id", Num("1")>>, <<"short_summary", summary>>, <<"details", details>>>>)

\* StoreResearchPlanTool.execute; dbOk is whether sqlite opens the file.
StoreExecute(argsString, dbOk) ==
    LET parsed == JSON_parse(argsString)
    IN  IF ~parsed.ok THEN ToolReturns(ErrorObject("SyntaxError"))
        ELSE IF parsed.value = JSNull THEN ToolReturns(ErrorObject("TypeError"))
        ELSE IF ~dbOk THEN ToolReturns(ErrorObject("SQLITE_CANTOPEN"))
        ELSE IF \/ Field(parsed.value, "short_summary") = Undefined
                \/ Field(parsed.value, "details") = Undefined
        THEN ToolReturns(ErrorObject("SQLITE_CONSTRAINT"))
        ELSE ToolReturns(PlanRow(Field(parsed.value, "short_summary"),
                                 Field(parsed.value, "details")))

\* GetResearchPlansTool.execute.
GetExecute(argsString, dbOk) ==
    IF dbOk THEN ToolReturns(Arr(<<PlanRow(Str("s"), Str("d"))>>))
    ELSE ToolReturns(Arr(<<ErrorObject("SQLITE_CANTOPEN")>>))

\* DeleteResearchPlanTool.execute.
DeleteExecute(argsString, dbOk) ==
    LET parsed == JSON_parse(argsString)
    IN  IF ~parsed.ok THEN ToolReturns(ErrorObject("SyntaxError"))
        ELSE IF parsed.value = JSNull THEN ToolReturns(ErrorObject("TypeError"))
        ELSE IF ~dbOk THEN ToolReturns(ErrorObject("SQLITE_CANTOPEN"))
        ELSE ToolReturns(Obj(<<<<"status", Str("success")>>,
                               <<"message", Str("Research plan deleted")>>>>))

\* toolToCall.execute(fnArgs) for the tool registered under a name.
execute(name, argsString, dbOk) ==
    IF name = "store_research_plan" THEN StoreExecute(argsString, dbOk)
    ELSE IF name = "get_research_plans" THEN GetExecute(argsString, dbOk)
    ELSE IF name = "delete_research_plan" THEN DeleteExecute(argsString, dbOk)
    ELSE ToolThrows("Each tool must implement its own execute method.")

\* What an agent's this.tools can hold: nothing, the research planner's
\* tools, or those and a plain Tool.
AgentTools == {{}, ResearchTools, ToolNames}

ToolCallNames == ToolNames \cup {"web_search"}

\* The input of one executeToolCall.
ToolCallInput(tools, fnName, fnArgs, dbOk) ==
    [registered |-> tools, toolCall |-> [name |-> fnName, arguments |-> fnArgs],
     dbOk |-> dbOk]

\* Variant: the catch block lets the tool's error through.
ToolError_Rethrown(input, message) ==
    Threw("executeToolCall", input, Err("Error", message))

\* agent.js line 34: the catch block.
ToolError(input, message) ==
    Returned("executeToolCall", input,
             <<"Error calling ", input.toolCall.name, ": ", message>>)

\* agent.js lines 23-39.
executeToolCall(tools, fnName, fnArgs, dbOk) ==
    LET input == ToolCallInput(tools, fnName, fnArgs, dbOk)
        outcome == execute(fnName, fnArgs, dbOk)
    IN  /\ pc = "idle"
        /\ pre' = Snapshot
        /\ result' = IF fnName \in tools
                     THEN IF outcome.threw
                          THEN ToolError(input, outcome.message)
                          ELSE Returned("executeToolCall", input,
                                        JSON_stringify(outcome.value))
                     ELSE Returned("executeToolCall", input,
                                   <<"Unknown tool: ", fnName>>)
        /\ pc' = "done"
        /\ UNCHANGED <<env, other, agents, wasForced, afterInit, manager, pending, inits,
                       calls, frame>>

\* The caller takes the value or the error of the finished operation and
\* goes on to its next operation.
CallerResumes ==
    /\ pc = "done"
    /\ pc' = "idle"
    /\ pre' = NoSnapshot
    /\ result' = NoResult
    /\ calls' = <<>>
    /\ inits' = <<>>
    /\ frame' = NoFrame
    /\ UNCHANGED <<env, other, agents, wasForced, afterInit, manager, pending>>

----------------------------------------------------------------------------
Next ==
    \/ \E n \in InputNames, c \in BOOLEAN : initializeSingleProvider(n, c)
    \/ \E ok \in BOOLEAN : ISP_Settle(ok)
    \/ initializeProviders
    \/ \E n \in ProviderKeys, ok \in BOOLEAN : safeInitializeProvider(n, ok)
    \/ IP_Finish
    \/ \E n \in InputNames : setActiveProvider(n)
    \/ chatCompletion
    \/ \E t \in ToolsInputs : chatCompletionWithTools(t)
    \/ \E ok \in BOOLEAN : DirectReturn(ok)
    \/ \E n \in InputNames, t \in ToolsInputs : switchProviderWithFallback(n, t)
    \/ \E ok \in BOOLEAN : PreferredReturn(ok)
    \/ \E ok \in BOOLEAN : FallbackReturn(ok)
    \/ \E n \in InputNames \cup {NULL} : Agent_chatCompletion(n)
    \/ \E n \in InputNames \cup {NULL}, t \in ToolsInputs :
          Agent_chatCompletionWithTools(n, t)
    \/ \E ok \in BOOLEAN : DefaultReturn(ok)
    \/ \E tools \in AgentTools, n \in ToolCallNames, a \in ArgStrings, ok \in BOOLEAN :
          executeToolCall(tools, n, a, ok)
    \/ CallerResumes

Spec == Init /\ [][Next]_vars

\* An adapter added by extending BaseAIProvider with initialize and
\* chatCompletion only: supportsTools() is the inherited one, which returns
\* false (base-provider.js lines 46-48).
TextOnlyKey == "textonly"

TextOnlyProvider == [name |-> "TextOnly", client |-> TRUE]

\* A manager on which such an adapter has been registered and selected.
InitStub ==
    /\ env \in SUBSET ProviderKeys
    /\ providers = <<[key |-> TextOnlyKey, inst |-> TextOnlyProvider]>>
    /\ activeProvider = TextOnlyKey
    /\ initMode = "auto"
    /\ forcedProvider = NULL
    /\ pc = "idle"
    /\ frame = NoFrame
    /\ pending = {}
    /\ inits = <<>>
    /\ calls = <<>>
    /\ pre = NoSnapshot
    /\ result = NoResult
    /\ wasForced = FALSE
    /\ afterInit = FALSE
    /\ other = NoOther
    /\ AgentsOff

SpecStub == InitStub /\ [][Next]_vars

----------------------------------------------------------------------------
(* Two requests in flight on the one manager (index.js exports a single     *)
(* AIProviderManager).  The first caller runs the actions above; the second *)
(* caller's request is kept in `other` and runs the same code, one step per *)
(* stretch between awaits.                                                  *)

EntryPoints == {"chatCompletion", "chatCompletionWithTools", "switchProviderWithFallback"}

\* A request that has not started; fails and start describe the scenario:
\* the adapters whose calls reject, and activeProvider before both requests.
NewRequest(fails, start) ==
    [pc |-> "idle", fails |-> fails, start |-> start, entry |-> NULL,
     preferred |-> NULL, tools |-> NULL, originalProvider |-> NULL, stage |-> NULL,
     key |-> NULL, method |-> NULL, status |-> NULL]

\* The adapter call through k resolves.
AdapterOk(k) == k \notin other.fails

\* The request's control state and this.activeProvider after a stretch.
After(q, active) == [q |-> q, active |-> active]

\* Lines 208-225: getActiveProvider, then the adapter call that is awaited.
RequestEntry(q, m, entryPoint, tools, stage, active) ==
    IF NoActiveProvider(m, active)
    THEN After([q EXCEPT !.pc = "done", !.status = "error"], active)
    ELSE After([q EXCEPT !.pc = "call", !.stage = stage, !.key = active,
                         !.method = ManagerMethod(Get(m, active), entryPoint)],
               active)

\* Lines 208-225 and 249-261, 276: a request from its call to its first
\* await, or to its throw.
RequestStart(q, m, active, entry, preferredProvider, tools) ==
    LET r == [q EXCEPT !.entry = entry, !.preferred = preferredProvider,
                       !.tools = tools, !.originalProvider = active]
    IN  IF entry = "switchProviderWithFallback"
        THEN IF Has(m, preferredProvider)
             THEN RequestEntry(r, m, SwitchEntryPoint(tools), tools, "preferred",
                               preferredProvider)
             ELSE After([r EXCEPT !.pc = "done", !.status = "error"], active)
        ELSE RequestEntry(r, m, entry, tools, "direct", active)

\* Lines 211, 221, 224 and 257-276: the awaited adapter call settles and the
\* request runs to its next await or to its end.
RequestSettle(q, m, active, ok) ==
    IF ok
    THEN After([q EXCEPT !.pc = "done", !.status = "ok"],
               IF q.stage = "preferred"
               THEN AfterPreferredSuccess(active, q.originalProvider) ELSE active)
    ELSE IF q.stage = "preferred" /\ CanFallBack(m, q.originalProvider)
    THEN RequestEntry(q, m, SwitchEntryPoint(q.tools), q.tools, "fallback",
                      FallbackTarget(m, q.originalProvider, q.preferred))
    ELSE After([q EXCEPT !.pc = "done", !.status = "error"], active)

\* The second caller makes its request.
Other_Request(entry, preferredProvider, tools) ==
    /\ other.pc = "idle"
    /\ LET a == RequestStart(other, providers, activeProvider, entry,
                             preferredProvider, tools)
       IN  /\ other' = a.q
           /\ activeProvider' = a.active
    /\ UNCHANGED <<env, agents, providers, initMode, forcedProvider, pc, frame, pending,
                   inits, calls, pre, result, wasForced, afterInit>>

\* The adapter call the second caller awaits settles.
Other_Settle ==
    /\ other.pc = "call"
    /\ LET a == RequestSettle(other, providers, activeProvider, AdapterOk(other.key))
       IN  /\ other' = a.q
           /\ activeProvider' = a.active
    /\ UNCHANGED <<env, agents, providers, initMode, forcedProvider, pc, frame, pending,
                   inits, calls, pre, result, wasForced, afterInit>>

\* The three adapters as initializeProviders registers them.
AllRegistered == RegisterAll(<<>>, 1, [k \in ProviderKeys |-> TRUE])

\* A manager initialised with all three adapters and some selection, two
\* callers about to make one request each.
InitConc ==
    /\ env = ProviderKeys
    /\ providers = AllRegistered
    /\ activeProvider \in ProviderKeys
    /\ initMode = "auto"
    /\ forcedProvider = NULL
    /\ pc = "idle"
    /\ frame = NoFrame
    /\ pending = {}
    /\ inits = <<>>
    /\ calls = <<>>
    /\ pre = NoSnapshot
    /\ result = NoResult
    /\ wasForced = FALSE
    /\ afterInit = FALSE
    /\ \E fails \in SUBSET ProviderKeys : other = NewRequest(fails, activeProvider)
    /\ AgentsOff

NextConc ==
    \/ chatCompletion
    \/ \E t \in ToolsInputs : chatCompletionWithTools(t)
    \/ \E n \in InputNames, t \in ToolsInputs : switchProviderWithFallback(n, t)
    \/ DirectReturn(AdapterOk(frame.key))
    \/ PreferredReturn(AdapterOk(frame.key))
    \/ FallbackReturn(AdapterOk(frame.key))
    \/ \E e \in EntryPoints, n \in InputNames, t \in ToolsInputs : Other_Request(e, n, t)
    \/ Other_Settle

SpecConc == InitConc /\ [][NextConc]_vars

\* A manager nobody has initialised or called, with no credential present.
Untouched ==
    /\ env = {}
    /\ providers = <<>>
    /\ activeProvider = NULL
    /\ initMode = "auto"
    /\ forcedProvider = NULL
    /\ pc = "idle"
    /\ frame = NoFrame
    /\ pending = {}
    /\ inits = <<>>
    /\ calls = <<>>
    /\ pre = NoSnapshot
    /\ result = NoResult
    /\ wasForced = FALSE
    /\ afterInit = FALSE
    /\ other = NoOther

----------------------------------------------------------------------------
(* ClaudeProvider.prepareClaudeMessages (claude-provider.js 113-129)        *)

MaxMessages == 3

Roles == {"system", "user", "assistant", "tool"}

\* Message contents; a string is the sequence of its pieces, '' is <<>>.
Contents == {<<>>, <<"a">>, <<"b">>}

\* Messages in the OpenAI format the callers use: a tool message carries
\* the id of the call it answers.
Messages ==
    [role : Roles \ {"tool"}, content : Contents, tool_call_id : {NULL}]
    \cup [role : {"tool"}, content : Contents, tool_call_id : {"call_1"}]

MessageLists == UNION {[1..n -> Messages] : n \in 0..MaxMessages}

\* Variant: a later system message replaces the earlier ones.
AppendSystem_Overwrite(systemMessage, content) == content

\* Line 119: systemMessage += (systemMessage ? '\n\n' : '') + message.content.
AppendSystem(systemMessage, content) ==
    systemMessage \o (IF systemMessage # <<>> THEN <<"\n\n">> ELSE <<>>) \o content

\* Lines 113-129, from message i on.
RECURSIVE PrepareFrom(_, _, _, _)
PrepareFrom(messages, i, systemMessage, conversationMessages) ==
    IF i > Len(messages)
    THEN [systemMessage |-> systemMessage, conversationMessages |-> conversationMessages]
    ELSE IF messages[i].role = "system"
    THEN PrepareFrom(messages, i + 1, AppendSystem(systemMessage, messages[i].content),
                     conversationMessages)
    ELSE PrepareFrom(messages, i + 1, systemMessage,
                     Append(conversationMessages,
                            [role |-> messages[i].role, content |-> messages[i].content]))

prepareClaudeMessages(messages) == PrepareFrom(messages, 1, <<>>, <<>>)

\* A Claude adapter about to prepare some message list.
InitClaude ==
    /\ Untouched
    /\ main = Off /\ scraper = Off /\ search = Off /\ planner = Off
    /\ \E ms \in MessageLists :
          claude = [pc |-> "ready", messages |-> ms,
                    prepared |-> prepareClaudeMessages(<<>>)]

\* chatCompletion / chatCompletionWithTools call it on their messages
\* (lines 25 and 52).
Claude_Prepare ==
    /\ claude.pc = "ready"
    /\ claude' = [claude EXCEPT !.pc = "prepared",
                                !.prepared = prepareClaudeMessages(claude.messages)]
    /\ UNCHANGED <<env, manager, pc, frame, pending, inits, calls, pre, result,
                   wasForced, afterInit, other, main, scraper, search, planner>>

NextClaude == Claude_Prepare

SpecClaude == InitClaude /\ [][NextClaude]_vars

----------------------------------------------------------------------------
(* WebSearchAgent.searchWithRetry (src/unnamed/part_005, 110-128)           *)

\* The largest maxRetries argument tried.
MaxRetriesArg == 4

\* The default of the maxRetries parameter (line 110).
DefaultMaxRetries == 3

SearchTerms == {"term one", "term two", "term three"}

\* How axios.get ends: data, an HTTP error status, or no response at all.
Responses == {"200", "429", "500", "no response"}

\* `error.response && error.response.status === 429` (line 116).
IsRateLimit(response) == response = "429"

\* Variant: the delay grows by two seconds per attempt.
Backoff_Linear(attempt) == attempt * 2000

\* Line 120: Math.pow(2, attempt) * 1000.
Backoff(attempt) == (2 ^ attempt) * 1000

\* Lines 110-113: the call, up to the first awaited axios.get; with
\* maxRetries < 1 the loop body never runs and undefined is returned.
searchWithRetry(searchTerm, maxRetries) ==
    /\ search = Off
    /\ search' = [pc |-> IF 1 <= maxRetries THEN "get" ELSE "returned",
                  searchTerm |-> searchTerm, maxRetries |-> maxRetries,
                  attempt |-> 1, responses |-> <<>>, delays |-> <<>>,
                  requests |-> IF 1 <= maxRetries THEN 1 ELSE 0,
                  thrown |-> NULL]
    /\ UNCHANGED <<env, manager, pc, frame, pending, inits, calls, pre, result,
                   wasForced, afterInit, other, main, claude, scraper, planner>>

\* Lines 113-125: the awaited axios.get settles.
Search_Response(response) ==
    /\ search.pc = "get"
    /\ LET seen == [search EXCEPT !.responses = Append(@, response)]
       IN  search' =
             IF response = "200" THEN [seen EXCEPT !.pc = "returned"]
             ELSE IF IsRateLimit(response)
             THEN IF search.attempt = search.maxRetries
                  THEN [seen EXCEPT !.pc = "threw", !.thrown = response]
                  ELSE [seen EXCEPT !.pc = "sleep",
                                    !.delays = Append(@, Backoff(search.attempt))]
             ELSE [seen EXCEPT !.pc = "threw", !.thrown = response]
    /\ UNCHANGED <<env, manager, pc, frame, pending, inits, calls, pre, result,
                   wasForced, afterInit, other, main, claude, scraper, planner>>

\* Lines 122 and 111-113: the sleep ends, attempt++ and the next axios.get.
Search_Wake ==
    /\ search.pc = "sleep"
    /\ search' = IF search.attempt + 1 <= search.maxRetries
                 THEN [search EXCEPT !.attempt = @ + 1, !.pc = "get",
                                     !.requests = @ + 1]
                 ELSE [search EXCEPT !.attempt = @ + 1, !.pc = "returned"]
    /\ UNCHANGED <<env, manager, pc, frame, pending, inits, calls, pre, result,
                   wasForced, afterInit, other, main, claude, scraper, planner>>

InitSearch ==
    /\ Untouched
    /\ main = Off /\ claude = Off /\ scraper = Off /\ planner = Off
    /\ search = Off

NextSearch ==
    \/ \E t \in SearchTerms, n \in 0..MaxRetriesArg : searchWithRetry(t, n)
    \/ \E r \in Responses : Search_Response(r)
    \/ Search_Wake

SpecSearch == InitSearch /\ [][NextSearch]_vars

----------------------------------------------------------------------------
(* ScrapingAgent.run and processBatch (src/agents/scraping-agent.js)        *)

\* The most URLs a run is given after the filter and the slice(0, maxUrls).
MaxUrls == 7

\* this.maxConcurrentPages (constructor, line 12).
maxConcurrentPages == 3

\* How a scrapeUrl promise settles: with a result object (success true or
\* false, lines 100-121), or rejected when page.close() in its finally
\* block throws.
ScrapeOutcomes == {"success", "failure", "rejected"}

Min(a, b) == IF a < b THEN a ELSE b

\* Line 238: urlsToScrape.slice(i, i + maxConcurrentPages), as positions of
\* urlsToScrape (1-based).
Batch(i, n) == (i + 1)..Min(i + maxConcurrentPages, n)

\* Variant: the delay is taken after every batch.
MoreBatches_Always(i, n) == TRUE

\* Line 245: the test before the inter-batch delay.
MoreBatches(i, n) == i + maxConcurrentPages < n

\* Lines 238-241 and 134-137: a batch is sliced and every scrapeUrl of it is
\* started.  most records the largest number of scrapes in flight so far.
StartBatch(sc, i) ==
    LET now == sc.inflight \cup Batch(i, sc.n)
    IN  [sc EXCEPT !.pc = "batch", !.i = i, !.inflight = now,
                   !.launched = @ \o [k \in 1..Cardinality(Batch(i, sc.n)) |-> i + k],
                   !.batches = @ + 1,
                   !.most = IF Cardinality(now) > @ THEN Cardinality(now) ELSE @]

\* Line 237: the for loop's i += maxConcurrentPages and its test
\* i < urlsToScrape.length, then the next batch or lines 251-257.
NextIteration(sc) ==
    LET next == sc.i + maxConcurrentPages
    IN  IF next < sc.n THEN StartBatch(sc, next)
        ELSE [sc EXCEPT !.pc = "returned", !.i = next]

\* Lines 217-241: run up to the first awaited processBatch, or to its end
\* when there is nothing to scrape.
Scraper_run(n) ==
    /\ scraper = Off
    /\ LET sc == [pc |-> "returned", n |-> n, i |-> 0, inflight |-> {},
                  launched |-> <<>>, outcome |-> [k \in {} |-> "success"],
                  scrapedResults |-> <<>>, sleeps |-> <<>>, batches |-> 0,
                  most |-> 0]
       IN  scraper' = IF 0 < n THEN StartBatch(sc, 0) ELSE sc
    /\ UNCHANGED <<env, manager, pc, frame, pending, inits, calls, pre, result,
                   wasForced, afterInit, other, main, claude, search, planner>>

\* A scrapeUrl promise settles.  A rejection rejects the Promise.all of
\* line 137 at once: run rethrows (lines 259-262) while the other scrapes
\* of the batch go on.
Scraper_scrapeUrl(k, outcome) ==
    /\ scraper # Off
    /\ k \in scraper.inflight
    /\ scraper' = [scraper EXCEPT
                      !.inflight = @ \ {k},
                      !.outcome = [j \in DOMAIN @ \cup {k} |->
                                      IF j = k THEN outcome ELSE @[j]],
                      !.pc = IF outcome = "rejected" /\ @ = "batch"
                             THEN "threw" ELSE @]
    /\ UNCHANGED <<env, manager, pc, frame, pending, inits, calls, pre, result,
                   wasForced, afterInit, other, main, claude, search, planner>>

\* Lines 241-248: Promise.all resolves, the batch's results are pushed in
\* batch order, then the delay (line 247) or the next iteration.
Scraper_BatchDone ==
    /\ scraper # Off
    /\ scraper.pc = "batch"
    /\ scraper.inflight = {}
    /\ LET b == Batch(scraper.i, scraper.n)
           pushed == [scraper EXCEPT
                        !.scrapedResults =
                           @ \o [k \in 1..Cardinality(b) |->
                                   [url |-> scraper.i + k,
                                    success |-> scraper.outcome[scraper.i + k] = "success"]]]
       IN  scraper' =
             IF MoreBatches(scraper.i, scraper.n)
             THEN [pushed EXCEPT !.pc = "sleep", !.sleeps = Append(@, scraper.i)]
             ELSE NextIteration(pushed)
    /\ UNCHANGED <<env, manager, pc, frame, pending, inits, calls, pre, result,
                   wasForced, afterInit, other, main, claude, search, planner>>

\* Line 247 resolves: the delay is over and the loop goes on.
Scraper_Wake ==
    /\ scraper # Off
    /\ scraper.pc = "sleep"
    /\ scraper' = NextIteration(scraper)
    /\ UNCHANGED <<env, manager, pc, frame, pending, inits, calls, pre, result,
                   wasForced, afterInit, other, main, claude, search, planner>>

InitScrape ==
    /\ Untouched
    /\ main = Off /\ claude = Off /\ search = Off /\ planner = Off
    /\ scraper = Off

NextScrape ==
    \/ \E n \in 0..MaxUrls : Scraper_run(n)
    \/ \E k \in 1..MaxUrls, o \in ScrapeOutcomes : Scraper_scrapeUrl(k, o)
    \/ Scraper_BatchDone
    \/ Scraper_Wake

SpecScrape == InitScrape /\ [][NextScrape]_vars

\* C25: a run keeps at most maxConcurrentPages scrapes in flight, takes the
\* URLs in input order in consecutive batches of that size, starts a batch
\* only when every scrape of the batch before it has settled, and has
\* taken exactly one delay between each two batches it started and none
\* after the last one.
C25_BatchedScraping ==
    scraper # Off =>
      /\ Cardinality(scraper.inflight) <= maxConcurrentPages
      /\ scraper.most <= maxConcurrentPages
      /\ scraper.launched = [k \in 1..Len(scraper.launched) |-> k]
      /\ scraper.pc \in {"batch", "sleep"} =>
            /\ scraper.i = (scraper.batches - 1) * maxConcurrentPages
            /\ Len(scraper.launched) = Min(scraper.i + maxConcurrentPages, scraper.n)
            /\ scraper.inflight \subseteq Batch(scraper.i, scraper.n)
      /\ scraper.pc = "batch" => Len(scraper.sleeps) = scraper.batches - 1
      /\ scraper.pc = "sleep" => Len(scraper.sleeps) = scraper.batches
      /\ \A j \in 1..Len(scraper.sleeps) :
            scraper.sleeps[j] = (j - 1) * maxConcurrentPages
      /\ scraper.pc = "returned" =>
            /\ Len(scraper.launched) = scraper.n
            /\ Len(scraper.sleeps) = IF scraper.n = 0 THEN 0 ELSE scraper.batches - 1
            /\ scraper.batches = (scraper.n + maxConcurrentPages - 1) \div maxConcurrentPages
            /\ [k \in 1..Len(scraper.scrapedResults) |-> scraper.scrapedResults[k].url]
                 = [k \in 1..scraper.n |-> k]

\* A run of seven URLs has its third batch in flight after two delays.
C25_Witness ==
    /\ scraper # Off
    /\ scraper.pc = "batch"
    /\ scraper.n = 7
    /\ scraper.batches = 3
    /\ scraper.inflight = {7}
    /\ Len(scraper.sleeps) = 2

----------------------------------------------------------------------------
(* Properties *)

Done(op) == pc = "done" /\ result.op = op

\* A finished switchProviderWithFallback whose preferred provider B and prior
\* selection A were both registered and whose call through B threw.
FellBack ==
    /\ Done("switchProviderWithFallback")
    /\ Has(pre.providers, pre.activeProvider)
    /\ Has(pre.providers, frame.preferred)
    /\ Len(calls) >= 1
    /\ calls[1].key = frame.preferred
    /\ calls[1].outcome = "threw"

\* The response of the request's call made directly through identity k of
\* registry m.
DirectResponse(m, k, tools) ==
    LET method == ManagerMethod(Get(m, k), SwitchEntryPoint(tools))
    IN  Response(Get(m, k), method, ToolsSent(method, tools))

\* C1: whenever the manager is between operations, activeProvider is unset
\* or a key of providers.
C1_ActiveSelectionRegistered ==
    pc = "done" => (activeProvider = NULL \/ Has(providers, activeProvider))

\* C2: when switchProviderWithFallback(B, ...) is called with selection A, A
\* and B registered, and the call through B throws, the retry goes through A
\* with the same (tooled or untooled) entry point, a value returned is the
\* response of that call through A, and activeProvider is A at the end.
C2_FallbackThroughOriginal ==
    FellBack =>
        /\ Len(calls) = 2
        /\ calls[2].key = pre.activeProvider
        /\ activeProvider = pre.activeProvider
        /\ calls[2].outcome = "ok" =>
              result = Returned("switchProviderWithFallback", frame.preferred,
                           DirectResponse(pre.providers, pre.activeProvider,
                                          frame.reqTools))
        /\ result.status = "ok" => calls[2].outcome = "ok"

C2_Witness ==
    /\ FellBack
    /\ pre.activeProvider # frame.preferred
    /\ frame.reqTools = "some"
    /\ result.status = "ok"
    /\ result.value.provider = ClassName(pre.activeProvider)
    /\ result.value.method = "chatCompletionWithTools"

\* C3: a switchProviderWithFallback whose preferred attempt failed and that
\* fails, fails with the no-available-provider error and no other.
C3_OnlyNoAvailableError ==
    ( /\ Done("switchProviderWithFallback")
      /\ Len(calls) >= 1
      /\ calls[1].outcome = "threw"
      /\ result.status = "error" )
    => result.error = Err("NoAvailableProvider", NULL)

\* C4 as claimed: after a switchProviderWithFallback that succeeded through
\* the preferred provider, activeProvider is what it was before the call.
C4_SelectionRestored ==
    ( /\ Done("switchProviderWithFallback")
      /\ result.status = "ok"
      /\ Len(calls) = 1 )
    => activeProvider = pre.activeProvider

\* C4 amended: after a switchProviderWithFallback that succeeded through the
\* preferred provider, activeProvider is the preferred identity: the
\* selection persists.
C4_SelectionPersists ==
    ( /\ Done("switchProviderWithFallback")
      /\ result.status = "ok"
      /\ Len(calls) = 1 )
    => /\ activeProvider = frame.preferred
       /\ calls[1].key = frame.preferred
       /\ result.value.provider = ClassName(frame.preferred)

C4_Witness ==
    /\ Done("switchProviderWithFallback")
    /\ result.status = "ok"
    /\ Len(calls) = 1
    /\ Truthy(pre.activeProvider)
    /\ pre.activeProvider # frame.preferred
    /\ activeProvider = frame.preferred

\* C5: one switchProviderWithFallback makes at most two adapter calls: the
\* first through the preferred identity, the second, made only after the
\* first threw, through the identity that was active before the attempt.
C5_AtMostOneAlternate ==
    frame.entry = "switchProviderWithFallback" =>
        /\ Len(calls) <= 2
        /\ Len(calls) >= 1 => calls[1].key = frame.preferred
        /\ Len(calls) = 2 => /\ calls[1].outcome = "threw"
                             /\ calls[2].key = frame.originalProvider
                             /\ calls[2].key = pre.activeProvider

C5_Witness ==
    /\ Done("switchProviderWithFallback")
    /\ Len(providers) = 3
    /\ Len(calls) = 2
    /\ calls[1].key # calls[2].key
    /\ calls[2].outcome = "threw"
    /\ result.status = "error"

\* An agent request made with a preferred provider set.
PreferringAgentRequest == IsAgentEntry(frame.entry) /\ Truthy(frame.preferred)

C7_FailureLeavesEmpty ==
    ( /\ Done("initializeSingleProvider")
      /\ result.status = "error"
      /\ result.error.kind \in {"ApiKeyNotFound", "ProviderError"} )
    => /\ providers = <<>>
       /\ activeProvider = NULL

\* C8: a successful initializeSingleProvider(X, config) leaves exactly one
\* registry entry, keyed X, with activeProvider = X, and getActiveProvider()
\* then returns the initialised adapter of X's class.
C8_SingleProviderRegistered ==
    ( /\ Done("initializeSingleProvider")
      /\ result.status = "ok" )
    => /\ ToLower(result.arg) \in ProviderKeys
       /\ Len(providers) = 1
       /\ Keys(providers) = {ToLower(result.arg)}
       /\ activeProvider = ToLower(result.arg)
       /\ ~NoActiveProvider(providers, activeProvider)
       /\ getActiveProvider = [name |-> ClassName(ToLower(result.arg)), client |-> TRUE]

C8_Witness ==
    /\ Done("initializeSingleProvider")
    /\ result.status = "ok"
    /\ Len(pre.providers) >= 2
    /\ ~Has(pre.providers, ToLower(result.arg))
    /\ Truthy(pre.activeProvider)
    /\ activeProvider = ToLower(result.arg)

\* C9: initializeSingleProvider with an identity outside {openai, gemini,
\* claude} throws an error naming that identity and leaves the registry as
\* it was before the call.
C9_UnknownIdentityRejected ==
    ( /\ Done("initializeSingleProvider")
      /\ ToLower(result.arg) \notin ProviderKeys )
    => /\ result.status = "error"
       /\ result.error = Err("UnknownProvider", result.arg)
       /\ providers = pre.providers

C9_Witness ==
    /\ Done("initializeSingleProvider")
    /\ result.arg = "mistral"
    /\ result.status = "error"
    /\ Len(pre.providers) >= 1
    /\ providers = pre.providers

\* The identities whose initialize() the finished call saw succeed.
Succeeded == {inits[i].key : i \in {j \in DOMAIN inits : inits[j].outcome = "ok"}}

Failed == {inits[i].key : i \in {j \in DOMAIN inits : inits[j].outcome = "threw"}}

\* C10 as claimed: after an initializeProviders that was not skipped, the
\* registry's keys are exactly the identities with a credential whose
\* initialize() succeeded.
C10_RegistryIsSurvivors ==
    ( /\ Done("initializeProviders")
      /\ result.arg = "ran" )
    => Keys(providers) = Succeeded

\* What the code does keep: after an initializeProviders that was not skipped, the
\* registry's keys among the identities with a credential are exactly those
\* whose initialize() succeeded, every identity whose initialize() failed is
\* absent, each identity with a credential was initialised once in that
\* call, and the entries of identities without a credential are the ones
\* that were registered before the call.
C10_CredentialedSurvivors ==
    ( /\ Done("initializeProviders")
      /\ result.arg = "ran" )
    => /\ Keys(providers) \cap env = Succeeded
       /\ Keys(providers) \ env = Keys(pre.providers) \ env
       /\ Succeeded \cup Failed = env
       /\ Failed \cap Keys(providers) = {}
       /\ Len(inits) = Cardinality(env)
       /\ \A i, j \in DOMAIN inits : inits[i].key = inits[j].key => i = j

C10_Witness ==
    /\ Done("initializeProviders")
    /\ result.arg = "ran"
    /\ Cardinality(env) = 3
    /\ Cardinality(Failed) = 1
    /\ Cardinality(Keys(providers)) = 2
    /\ Len(pre.providers) = 3

\* The identity initializeProviders is documented to select: the first of
\* openai, gemini, claude that is registered, or none.
HighestPriority(m) ==
    IF Keys(m) \cap ProviderKeys = {} THEN NULL
    ELSE InitOrder[CHOOSE i \in DOMAIN InitOrder :
                      /\ InitOrder[i] \in Keys(m)
                      /\ \A j \in 1..(i - 1) : InitOrder[j] \notin Keys(m)]

\* C11: after every initializeProviders that was not skipped, activeProvider
\* is the highest-priority registered identity in the order openai, gemini,
\* claude, and is unset when the registry is empty.
C11_HighestPrioritySurvivor ==
    ( /\ Done("initializeProviders")
      /\ result.arg = "ran" )
    => activeProvider = HighestPriority(providers)

\* C12: during initializeProviders every identity with a credential has its
\* initialize() started before the join is awaited, activeProvider is not
\* assigned while any of them is unsettled, and when the call ends all have
\* settled and every one that succeeded is registered, whatever the others
\* did.
C12_JoinBeforeSelection ==
    frame.entry = "initializeProviders" =>
        /\ {inits[i].key : i \in DOMAIN inits} = env
        /\ Len(inits) = Cardinality(env)
        /\ pending = {inits[i].key : i \in {j \in DOMAIN inits : inits[j].outcome = "pending"}}
        /\ pc = "ip_join" => activeProvider = pre.activeProvider
        /\ pc = "done" => /\ pending = {}
                          /\ Succeeded \subseteq Keys(providers)

C12_Witness ==
    /\ frame.entry = "initializeProviders"
    /\ pc = "ip_join"
    /\ Cardinality(pending) = 1
    /\ Cardinality(Succeeded) = 1
    /\ Cardinality(Failed) = 1
    /\ Succeeded \subseteq Keys(providers)
    /\ activeProvider = NULL

\* C13: after a successful initializeSingleProvider every later
\* initializeProviders call is a no-op: no initialize() is started and the
\* registry, the selection and the forced-mode marking are unchanged.
C13_ForcedSkipsAutoInit ==
    ( /\ Done("initializeProviders")
      /\ wasForced )
    => /\ result.arg = "skipped"
       /\ inits = <<>>
       /\ Snapshot = pre

\* C14: an initializeProviders that runs right after another one, with the
\* same credentials and the same per-adapter outcomes (the adapters that
\* succeed are the credentialed ones the first call left registered), leaves
\* the registry keys and activeProvider as the first call left them.
C14_Idempotent ==
    ( /\ Done("initializeProviders")
      /\ result.arg = "ran"
      /\ frame.stage = "repeat"
      /\ Succeeded = Keys(pre.providers) \cap env )
    => /\ Keys(providers) = Keys(pre.providers)
       /\ activeProvider = pre.activeProvider

C14_Witness ==
    /\ Done("initializeProviders")
    /\ result.arg = "ran"
    /\ frame.stage = "repeat"
    /\ Succeeded = Keys(pre.providers) \cap env
    /\ Cardinality(Failed) = 1
    /\ Cardinality(Succeeded) = 2
    /\ activeProvider = "gemini"
    /\ Keys(providers) = {"gemini", "claude"}

\* A finished request made on the manager directly.
DirectDone == Done("chatCompletion") \/ Done("chatCompletionWithTools")

\* C15: a direct chatCompletion or chatCompletionWithTools made while
\* activeProvider is unset or is not a registry key throws the
\* no-active-provider error, calls no adapter and leaves the registry and
\* activeProvider as they were.
C15_NoActiveProviderError ==
    ( /\ DirectDone
      /\ \/ pre.activeProvider = NULL
         \/ pre.activeProvider \notin Keys(pre.providers) )
    => /\ result.status = "error"
       /\ result.error.kind = "NoActiveProvider"
       /\ calls = <<>>
       /\ providers = pre.providers
       /\ activeProvider = pre.activeProvider

C15_Witness ==
    /\ Done("chatCompletionWithTools")
    /\ pre.activeProvider # NULL
    /\ pre.activeProvider \notin Keys(pre.providers)
    /\ result.error.kind = "NoActiveProvider"

\* C16: setActiveProvider(name) throws the not-available error and keeps
\* activeProvider when name is not a registry key, and otherwise sets
\* activeProvider to name; either way the registry is unchanged and no
\* adapter is initialised or called.
C16_SetActiveProvider ==
    Done("setActiveProvider") =>
        /\ providers = pre.providers
        /\ calls = <<>>
        /\ inits = <<>>
        /\ IF result.arg \in Keys(pre.providers)
           THEN /\ result.status = "ok"
                /\ activeProvider = result.arg
           ELSE /\ result = Threw("setActiveProvider", result.arg,
                                  Err("NotAvailable", result.arg))
                /\ activeProvider = pre.activeProvider

C16_Witness ==
    /\ Done("setActiveProvider")
    /\ result.arg \notin Keys(pre.providers)
    /\ result.arg \in ProviderKeys
    /\ result.status = "error"
    /\ pre.activeProvider \in Keys(pre.providers)
    /\ activeProvider = pre.activeProvider

\* C18: when the active provider's call fails during a direct chatCompletion
\* or chatCompletionWithTools and another provider is registered, the
\* request is retried on another provider.
C18_AutomaticRetry ==
    ( /\ DirectDone
      /\ Len(pre.providers) >= 2
      /\ Len(calls) >= 1
      /\ calls[1].outcome = "threw" )
    => /\ Len(calls) >= 2
       /\ calls[2].key # calls[1].key

\* The pieces of a returned string.
Pieces(str) == {str[i] : i \in DOMAIN str}

\* C20: executeToolCall never throws: for a name that is not registered it
\* returns a string with 'Unknown tool' and the name; when the registered
\* tool's execute throws it returns an error string naming the tool;
\* otherwise it returns JSON.stringify of what execute returned for the
\* tool call's own arguments string.
C20_ExecuteToolCallNeverThrows ==
    Done("executeToolCall") =>
        LET tc == result.arg.toolCall
            outcome == execute(tc.name, tc.arguments, result.arg.dbOk)
        IN  /\ result.status = "ok"
            /\ IF tc.name \notin result.arg.registered
               THEN {"Unknown tool: ", tc.name} \subseteq Pieces(result.value)
               ELSE IF outcome.threw
               THEN /\ {"Error calling ", tc.name, outcome.message}
                        \subseteq Pieces(result.value)
               ELSE result.value = JSON_stringify(outcome.value)

C20_Witness ==
    /\ Done("executeToolCall")
    /\ result.arg.toolCall.name = PlainTool
    /\ PlainTool \in result.arg.registered
    /\ result.status = "ok"
    /\ result.value = <<"Error calling ", PlainTool, ": ",
                        "Each tool must implement its own execute method.">>

\* C17: a chatCompletionWithTools made while the active adapter reports
\* supportsTools() false behaves as chatCompletion: the adapter's
\* chatCompletion is called exactly once and its chatCompletionWithTools
\* never, no tool list reaches the adapter, and the request ends as that one
\* chatCompletion call ends (its response, without tools, or its error; the
\* missing capability itself raises none), on every such call.
C17_DegradesToChatCompletion ==
    ( /\ Done("chatCompletionWithTools")
      /\ pre.activeProvider \in Keys(pre.providers)
      /\ ~supportsTools(Get(pre.providers, pre.activeProvider)) )
    => LET inst == Get(pre.providers, pre.activeProvider)
       IN  /\ Len(calls) = 1
           /\ calls[1].key = pre.activeProvider
           /\ calls[1].method = "chatCompletion"
           /\ calls[1].outcome = "ok" =>
                  result = Returned("chatCompletionWithTools", result.arg,
                                    Response(inst, "chatCompletion", NULL))
           /\ calls[1].outcome = "threw" =>
                  result = Threw("chatCompletionWithTools", result.arg,
                                 handleError(inst))
           /\ calls[1].outcome \in {"ok", "threw"}

C17_Witness ==
    /\ Done("chatCompletionWithTools")
    /\ pre.activeProvider = TextOnlyKey
    /\ Len(pre.providers) >= 2
    /\ frame.reqTools = "some"
    /\ result.status = "ok"
    /\ result.value.tools = NULL
    /\ calls = <<[key |-> TextOnlyKey, method |-> "chatCompletion", outcome |-> "ok"]>>

\* A request run alone from its call to its end, every call through an
\* adapter of `fails` rejecting.
RECURSIVE RunToEnd(_, _, _)
RunToEnd(a, m, fails) ==
    IF a.q.pc = "done" THEN a
    ELSE RunToEnd(RequestSettle(a.q, m, a.active, a.q.key \notin fails), m, fails)

RunAlone(req, m, active, fails) ==
    RunToEnd(RequestStart(NewRequest(fails, active), m, active, req.entry,
                          req.preferred, req.tools), m, fails)

\* The adapter whose response a finished request returned, if any.
ServedBy(status, key) == IF status = "ok" THEN key ELSE NULL

\* The outcome of running request x and then request y.
InSequence(x, y, m, active, fails) ==
    LET rx == RunAlone(x, m, active, fails)
        ry == RunAlone(y, m, rx.active, fails)
    IN  [x |-> ServedBy(rx.q.status, rx.q.key), y |-> ServedBy(ry.q.status, ry.q.key),
         active |-> ry.active]

\* C19: when two concurrent chatCompletion or switchProviderWithFallback
\* requests have both finished, the adapter that served each and the final
\* activeProvider are those of running the two requests one after the other,
\* in one of the two orders, with the same adapters failing.
C19_Serializable ==
    ( /\ pc = "done"
      /\ other.pc = "done" )
    => LET first == [entry |-> frame.entry, preferred |-> frame.preferred,
                     tools |-> frame.reqTools]
           second == [entry |-> other.entry, preferred |-> other.preferred,
                      tools |-> other.tools]
           mine == ServedBy(result.status, frame.key)
           theirs == ServedBy(other.status, other.key)
           ab == InSequence(first, second, providers, other.start, other.fails)
           ba == InSequence(second, first, providers, other.start, other.fails)
       IN  \/ ab = [x |-> mine, y |-> theirs, active |-> activeProvider]
           \/ ba = [x |-> theirs, y |-> mine, active |-> activeProvider]

\* C21: initialize() of an adapter is all-or-nothing: whenever an
\* initialize() fails, the adapter it ran on has no client handle.
C21_InitializeAllOrNothing ==
    [][\A i \in DOMAIN inits :
          ( /\ i \in DOMAIN inits'
            /\ inits[i].outcome = "pending"
            /\ inits'[i].outcome = "threw"
            /\ inits'[i].key = inits[i].key )
          => ~Get(providers, inits[i].key).client]_vars

\* C29: an initializeProviders called while initMode is 'manual', that is
\* after any initializeSingleProvider call (failed ones included) with no
\* initializeProviders run in between, is skipped and leaves the registry
\* and activeProvider unchanged.
C29_AnySingleCallForces ==
    ( /\ Done("initializeProviders")
      /\ pre.initMode = "manual" )
    => /\ result.arg = "skipped"
       /\ providers = pre.providers
       /\ activeProvider = pre.activeProvider

\* C30: switchProviderWithFallback with a preferred identity that is not
\* registered calls no adapter, leaves activeProvider and the registry
\* unchanged and throws the no-available-provider error.
C30_UnregisteredPreferred ==
    ( /\ Done("switchProviderWithFallback")
      /\ frame.preferred \notin Keys(pre.providers) )
    => /\ calls = <<>>
       /\ Snapshot = pre
       /\ result = Threw("switchProviderWithFallback", frame.preferred,
                         Err("NoAvailableProvider", NULL))

C30_Witness ==
    /\ Done("switchProviderWithFallback")
    /\ frame.preferred = "mistral"
    /\ pre.activeProvider \in Keys(pre.providers)
    /\ Len(pre.providers) >= 2
    /\ calls = <<>>
    /\ result.error.kind = "NoAvailableProvider"

\* The (role, content) of each message of a list.
RoleAndContent(ms) ==
    [i \in DOMAIN ms |-> [role |-> ms[i].role, content |-> ms[i].content]]

\* The contents of the messages of a list, one after the other.
RECURSIVE ContentsOf(_)
ContentsOf(ms) == IF ms = <<>> THEN <<>> ELSE ms[1].content \o ContentsOf(Tail(ms))

\* C24: prepareClaudeMessages moves exactly the system messages out: the
\* system text is their contents in input order (separators aside), and the
\* conversation is the other messages, each with its role and content, in
\* input order, none dropped or duplicated.
C24_SystemExtracted ==
    claude.pc = "prepared" =>
        LET sys == SelectSeq(claude.messages, LAMBDA m : m.role = "system")
            rest == SelectSeq(claude.messages, LAMBDA m : m.role # "system")
            out == claude.prepared
        IN  /\ out.conversationMessages = RoleAndContent(rest)
            /\ SelectSeq(out.systemMessage, LAMBDA piece : piece # "\n\n")
                  = ContentsOf(sys)
            /\ \A i \in DOMAIN out.conversationMessages :
                  out.conversationMessages[i].role # "system"

C24_Witness ==
    /\ claude.pc = "prepared"
    /\ Len(claude.messages) = 3
    /\ claude.messages[1].role = "user"
    /\ claude.messages[2].role = "system"
    /\ claude.messages[3].role = "tool"
    /\ claude.messages[2].content = <<"a">>
    /\ claude.prepared.systemMessage = <<"a">>
    /\ Len(claude.prepared.conversationMessages) = 2

\* C26: searchWithRetry makes a further request only after a 429 response
\* and after sleeping 2s, 4s, 8s, ... (2^k seconds after the k-th attempt),
\* makes at most maxRetries requests, rethrows the 429 of the final attempt
\* and rethrows any other error at once.
C26_RetryOnlyOn429 ==
    search # Off =>
        /\ search.requests <= search.maxRetries
        /\ \A k \in DOMAIN search.delays : search.delays[k] = (2 ^ k) * 1000
        /\ Len(search.delays) =
              Cardinality({k \in DOMAIN search.responses :
                             search.responses[k] = "429" /\ k < search.maxRetries})
        /\ \A k \in DOMAIN search.responses :
              k < Len(search.responses) => search.responses[k] = "429"
        /\ search.pc = "get" => search.requests = Len(search.responses) + 1
        /\ search.pc \in {"returned", "threw", "sleep"} =>
              search.requests = Len(search.responses)
        /\ search.pc = "threw" =>
              /\ search.thrown = search.responses[Len(search.responses)]
              /\ search.thrown = "429" => search.requests = search.maxRetries
        /\ ( /\ search.responses # <<>>
             /\ search.responses[Len(search.responses)] \in {"500", "no response"} )
           => search.pc = "threw"

C26_Witness ==
    /\ search # Off
    /\ search.maxRetries = DefaultMaxRetries
    /\ search.pc = "threw"
    /\ search.thrown = "429"
    /\ search.requests = 3
    /\ search.delays = <<2000, 4000>>

----------------------------------------------------------------------------
(* main (src/main.js lines 200-283): startup and the request loop           *)

\* The most prompts one run of the program is followed for.
MaxPrompts == 2

\* AI_PROVIDER_CONFIG (ai-provider-config.js): the mode, the forced identity
\* and whether providers[forcedProvider] carries an apiKey.
Configs ==
    [mode : {"auto", "manual"}, forcedProvider : InputNames, apiKey : BOOLEAN]

\* What the user types at the prompt, after trim().
UserInputs == {"exit", "", "request"}

\* The functions of availableTools (lines 16-78).
Workflows == {"start_research", "generate_image", "summarize_url"}

\* What the routing response carries: a call of one of the functions, a
\* call of a function that is none of them, the refusal text, or other text.
RouteChoices == Workflows \cup {"other function", "i can't do it", "text"}

\* How an awaited workflow ends: it completes, it reports a failure of its
\* agent and returns (url-summarization-workflow.js lines 21-24), or its
\* catch block rethrows (research-workflow.js lines 62-65).
WorkflowOutcomes(w) ==
    IF w = "start_research" THEN {"completed", "raised"}
    ELSE {"completed", "reported", "raised"}

\* Lines 279-281: the catch block of main.
ProcessExit(m) == [m EXCEPT !.pc = "exited", !.exitCode = 1]

\* Variant: an error of a workflow is caught inside the loop's iteration.
AfterWorkflow_Caught(m, outcome) == [m EXCEPT !.pc = "prompt", !.last = outcome]

\* Lines 255-266 and 279-281: main after the awaited workflow has ended.
AfterWorkflow(m, outcome) ==
    IF outcome = "raised" THEN ProcessExit([m EXCEPT !.last = outcome])
    ELSE [m EXCEPT !.pc = "prompt", !.last = outcome]

\* Variant: startup checks that a provider is usable.
AfterStartup_Checked(m, res, unusable) ==
    IF res.status = "error" \/ unusable THEN ProcessExit(m)
    ELSE [m EXCEPT !.pc = "prompt"]

\* Lines 207-216 and 279-281: main after the awaited initialization.  Only
\* an error thrown by the call ends the process; whether the manager has a
\* usable selection is not looked at.
AfterStartup(m, res, unusable) ==
    IF res.status = "error" THEN ProcessExit(m) ELSE [m EXCEPT !.pc = "prompt"]

\* main takes the outcome of the manager call it awaited.
Resume ==
    /\ pc = "done"
    /\ pc' = "idle"
    /\ pre' = NoSnapshot
    /\ result' = NoResult
    /\ calls' = <<>>
    /\ inits' = <<>>
    /\ frame' = NoFrame

\* Line 202: await initDb().
Main_initDb(ok) ==
    /\ main.pc = "start"
    /\ main' = IF ok THEN [main EXCEPT !.pc = "init"] ELSE ProcessExit(main)
    /\ UNCHANGED <<env, manager, pc, frame, pending, inits, calls, pre, result,
                   wasForced, afterInit, other, claude, scraper, search, planner>>

\* Lines 207-210: the manual branch.
Main_initializeSingleProvider ==
    /\ main.pc = "init"
    /\ main.config.mode = "manual"
    /\ initializeSingleProvider(main.config.forcedProvider, main.config.apiKey)

\* Lines 211-214: the automatic branch.
Main_initializeProviders ==
    /\ main.pc = "init"
    /\ main.config.mode # "manual"
    /\ initializeProviders

\* Lines 216-234: the initialization has settled; the banner and the loop,
\* or the catch block.
Main_Started ==
    /\ main.pc = "init"
    /\ Resume
    /\ main' = AfterStartup(main, result, NoActiveProvider(providers, activeProvider))
    /\ UNCHANGED <<env, manager, pending, wasForced, afterInit, other, claude, scraper,
                   search, planner>>

\* Lines 236-248: one answer at the prompt.
Main_getUserInput(userInput) ==
    /\ main.pc = "prompt"
    /\ main.prompts < MaxPrompts
    /\ main' = IF userInput = "exit" THEN [main EXCEPT !.pc = "closed", !.prompts = @ + 1]
               ELSE IF userInput = "" THEN [main EXCEPT !.prompts = @ + 1]
               ELSE [main EXCEPT !.pc = "routing", !.prompts = @ + 1]
    /\ UNCHANGED <<env, manager, pc, frame, pending, inits, calls, pre, result,
                   wasForced, afterInit, other, claude, scraper, search, planner>>

\* Lines 88-167: routeUserRequest asks the manager.
Main_routeUserRequest ==
    /\ main.pc = "routing"
    /\ chatCompletionWithTools("some")

\* Lines 163-170 and 252-274: the routing answer, or the fallback text of
\* routeUserRequest's catch block, is dispatched.  JSON.parse of the call's
\* arguments throws when they are no JSON text.
Main_Routed(choice, argsOk) ==
    /\ main.pc = "routing"
    /\ Resume
    /\ IF result.status = "error" THEN choice = "text" /\ argsOk
       ELSE /\ choice \notin {"i can't do it", "text"}
                  => result.value.method = "chatCompletionWithTools"
            /\ choice \notin Workflows => argsOk
    /\ main' = IF choice \in Workflows
               THEN IF argsOk THEN [main EXCEPT !.pc = "workflow", !.workflow = choice]
                    ELSE ProcessExit(main)
               ELSE IF choice = "text" THEN [main EXCEPT !.pc = "chat"]
               ELSE [main EXCEPT !.pc = "prompt"]
    /\ UNCHANGED <<env, manager, pending, wasForced, afterInit, other, claude, scraper,
                   search, planner>>

\* Lines 256, 261 and 264: the awaited workflow ends.
Main_Workflow(outcome) ==
    /\ main.pc = "workflow"
    /\ outcome \in WorkflowOutcomes(main.workflow)
    /\ main' = AfterWorkflow(main, outcome)
    /\ UNCHANGED <<env, manager, pc, frame, pending, inits, calls, pre, result,
                   wasForced, afterInit, other, claude, scraper, search, planner>>

\* Lines 174-196: handleGeneralChat asks the manager.
Main_handleGeneralChat ==
    /\ main.pc = "chat"
    /\ chatCompletion

\* Lines 190-195 and 271-276: the answer or the fallback text is printed.
Main_Chatted ==
    /\ main.pc = "chat"
    /\ Resume
    /\ main' = [main EXCEPT !.pc = "prompt"]
    /\ UNCHANGED <<env, manager, pending, wasForced, afterInit, other, claude, scraper,
                   search, planner>>

InitMain ==
    /\ env \in SUBSET ProviderKeys
    /\ providers = <<>>
    /\ activeProvider = NULL
    /\ initMode = "auto"
    /\ forcedProvider = NULL
    /\ pc = "idle"
    /\ frame = NoFrame
    /\ pending = {}
    /\ inits = <<>>
    /\ calls = <<>>
    /\ pre = NoSnapshot
    /\ result = NoResult
    /\ wasForced = FALSE
    /\ afterInit = FALSE
    /\ other = NoOther
    /\ claude = Off /\ scraper = Off /\ search = Off /\ planner = Off
    /\ \E c \in Configs :
          main = [pc |-> "start", config |-> c, prompts |-> 0, workflow |-> NULL,
                  last |-> NULL, exitCode |-> NULL]

NextMain ==
    \/ \E ok \in BOOLEAN : Main_initDb(ok)
    \/ Main_initializeSingleProvider
    \/ \E ok \in BOOLEAN : ISP_Settle(ok)
    \/ Main_initializeProviders
    \/ \E n \in ProviderKeys, ok \in BOOLEAN : safeInitializeProvider(n, ok)
    \/ IP_Finish
    \/ Main_Started
    \/ \E u \in UserInputs : Main_getUserInput(u)
    \/ Main_routeUserRequest
    \/ \E ok \in BOOLEAN : DirectReturn(ok)
    \/ \E c \in RouteChoices, a \in BOOLEAN : Main_Routed(c, a)
    \/ \E o \in {"completed", "reported", "raised"} : Main_Workflow(o)
    \/ Main_handleGeneralChat
    \/ Main_Chatted

SpecMain == InitMain /\ [][NextMain]_vars

----------------------------------------------------------------------------
(* ResearchPlannerAgent.run (src/agents/research-planner-agent.js)          *)

\* The most tool calls one response carries.
MaxCalls == 2

\* The most chatCompletionWithTools requests one run is followed for.
MaxRequests == 2

\* A field a message object does not have.
Absent == Undefined

\* A message object of this.messages: { role, content } and, on a tool
\* message, tool_call_id.  Fields that may be absent hold JS values.
Message(role, content) ==
    [role |-> Str(role), content |-> content, tool_calls |-> Absent,
     tool_call_id |-> Absent]

\* Lines 181-186: choice.message, built from the standardized response.
ChoiceMessage(response) ==
    [role |-> Absent, content |-> response.content, tool_calls |-> response.toolCalls,
     tool_call_id |-> Absent]

\* Variant: the tool message is pushed without the call's id.
ToolMessage_NoLink(toolCall, toolOutput) == Message("tool", toolOutput)

\* Lines 196-200: the message pushed for one executed call.
ToolMessage(toolCall, toolOutput) ==
    [Message("tool", toolOutput) EXCEPT !.tool_call_id = Str(toolCall.id)]

\* agent.js lines 23-39 as a function: the string executeToolCall resolves to.
ToolOutput(tools, fnName, fnArgs, dbOk) ==
    LET outcome == execute(fnName, fnArgs, dbOk)
    IN  IF fnName \in tools
        THEN IF outcome.threw
             THEN <<"Error calling ", fnName, ": ", outcome.message>>
             ELSE JSON_stringify(outcome.value)
        ELSE <<"Unknown tool: ", fnName>>

\* The calls a response can carry: of a registered and of an unregistered
\* function; ids as the adapters give them, distinct within one response.
PlannerCalls ==
    {[name |-> "store_research_plan", arguments |-> PlanArgs],
     [name |-> "web_search", arguments |-> PlanArgs]}

\* gemini-provider.js line 86: the id of the call at an index.
CallId(index) == <<"call_0", "call_1", "call_2", "call_3">>[index + 1]

ToolCallLists ==
    UNION {{[i \in 1..n |-> [id |-> CallId(i - 1), name |-> f[i].name,
                              arguments |-> f[i].arguments]] :
             f \in [1..n -> PlannerCalls]} : n \in 1..MaxCalls}

\* base-provider.js line 85 and the adapters: toolCalls is null or a
\* non-empty list.
PlannerResponses ==
    [content : {<<"a">>}, toolCalls : {JSNull} \cup {Arr(l) : l \in ToolCallLists}]

\* Line 188: !choice.message.tool_calls.
NoToolCalls(m) == m.tool_calls = JSNull

Push(pl, m) == [pl EXCEPT !.messages = Append(@, m)]

\* Lines 105-137: run up to its first await.
Planner_run(hasTopic) ==
    /\ planner.pc = "new"
    /\ planner' = IF hasTopic
                  THEN [Push(planner, Message("user", <<"planningPrompt">>))
                           EXCEPT !.pc = "plan"]
                  ELSE [planner EXCEPT !.pc = "input"]
    /\ UNCHANGED <<env, manager, pc, frame, pending, inits, calls, pre, result,
                   wasForced, afterInit, other, main, claude, scraper, search>>

\* Lines 126-137: the initial plan arrives; it is printed, not pushed.
Planner_InitialPlan(ok) ==
    /\ planner.pc = "plan"
    /\ planner' = [planner EXCEPT !.pc = IF ok THEN "input" ELSE "threw"]
    /\ UNCHANGED <<env, manager, pc, frame, pending, inits, calls, pre, result,
                   wasForced, afterInit, other, main, claude, scraper, search>>

\* Lines 143-174: one answer of the user, up to the next await.
Planner_question(userInput) ==
    /\ planner.pc = "input"
    /\ userInput = "text" => planner.requests < MaxRequests
    /\ planner' =
          IF userInput = "exit" THEN [planner EXCEPT !.pc = "exited"]
          ELSE IF userInput = "accept"
          THEN [Push(planner, Message("user", <<"prompt">>)) EXCEPT !.pc = "final"]
          ELSE [Push(planner, Message("user", <<"userInput">>))
                   EXCEPT !.pc = "request", !.requests = @ + 1]
    /\ UNCHANGED <<env, manager, pc, frame, pending, inits, calls, pre, result,
                   wasForced, afterInit, other, main, claude, scraper, search>>

\* Lines 158-169: the final plan arrives, or the request fails.
Planner_FinalPlan(ok) ==
    /\ planner.pc = "final"
    /\ planner' = [planner EXCEPT !.pc = IF ok THEN "returned" ELSE "threw"]
    /\ UNCHANGED <<env, manager, pc, frame, pending, inits, calls, pre, result,
                   wasForced, afterInit, other, main, claude, scraper, search>>

\* Lines 175-191 and 203-207: the awaited chatCompletionWithTools settles.
Planner_Response(ok, response) ==
    /\ planner.pc = "request"
    /\ response.toolCalls # JSNull => planner.requests < MaxRequests
    /\ planner' =
          IF ~ok THEN [planner EXCEPT !.pc = "threw"]
          ELSE LET pushed == Push(planner, ChoiceMessage(response))
               IN  IF NoToolCalls(ChoiceMessage(response))
                   THEN [pushed EXCEPT !.pc = "input"]
                   ELSE [pushed EXCEPT !.pc = "tools", !.toolCalls = response.toolCalls.items,
                                       !.k = 1]
    /\ UNCHANGED <<env, manager, pc, frame, pending, inits, calls, pre, result,
                   wasForced, afterInit, other, main, claude, scraper, search>>

\* Lines 194-201 and 175: one executeToolCall resolves and its message is
\* pushed; after the last call of the response the next request is issued.
Planner_executeToolCall(dbOk) ==
    /\ planner.pc = "tools"
    /\ LET toolCall == planner.toolCalls[planner.k]
           toolOutput == ToolOutput(ResearchTools, toolCall.name, toolCall.arguments, dbOk)
           pushed == [Push(planner, ToolMessage(toolCall, toolOutput))
                         EXCEPT !.outputs = Append(@, toolOutput)]
       IN  planner' =
             IF planner.k < Len(planner.toolCalls)
             THEN [pushed EXCEPT !.k = @ + 1]
             ELSE [pushed EXCEPT !.pc = "request", !.toolCalls = <<>>, !.k = 0,
                                 !.requests = @ + 1]
    /\ UNCHANGED <<env, manager, pc, frame, pending, inits, calls, pre, result,
                   wasForced, afterInit, other, main, claude, scraper, search>>

\* Lines 9-15 and 20-30: a constructed agent, its history the system prompt.
InitPlanner ==
    /\ Untouched
    /\ main = Off /\ claude = Off /\ scraper = Off /\ search = Off
    /\ planner = [pc |-> "new", messages |-> <<Message("system", <<"prompt">>)>>,
                  toolCalls |-> <<>>, k |-> 0, requests |-> 0, outputs |-> <<>>]

NextPlanner ==
    \/ \E t \in BOOLEAN : Planner_run(t)
    \/ \E ok \in BOOLEAN : Planner_InitialPlan(ok)
    \/ \E u \in {"exit", "accept", "text"} : Planner_question(u)
    \/ \E ok \in BOOLEAN : Planner_FinalPlan(ok)
    \/ \E ok \in BOOLEAN, r \in PlannerResponses : Planner_Response(ok, r)
    \/ \E dbOk \in BOOLEAN : Planner_executeToolCall(dbOk)

SpecPlanner == InitPlanner /\ [][NextPlanner]_vars

\* The messages of a history that are model responses (they carry the
\* response's toolCalls, null or a list).
IsResponse(m) == m.tool_calls # Absent

\* The position of the last response of a history, 0 when there is none.
LastResponse(ms) ==
    IF \E p \in DOMAIN ms : IsResponse(ms[p])
    THEN CHOOSE p \in DOMAIN ms :
            IsResponse(ms[p]) /\ \A q \in DOMAIN ms : IsResponse(ms[q]) => q <= p
    ELSE 0

\* How many of the calls of the response at p must have their message in
\* the history: all of them, or those executed so far while the agent is
\* still working through that response.
Answered(pl, p) ==
    IF pl.pc = "tools" /\ p = LastResponse(pl.messages) THEN pl.k - 1
    ELSE Len(pl.messages[p].tool_calls.items)

\* C27: every message of the planner's history carries a role, one of
\* system, user, assistant and tool.
C27_EveryMessageHasRole ==
    planner # Off =>
      \A i \in DOMAIN planner.messages :
         planner.messages[i].role \in {Str(r) : r \in Roles}

\* C28: in the history, each response with tool calls is followed at once
\* by one tool message per call, in the order of the calls, each with its
\* call's id and the string executeToolCall returned; no other tool message
\* exists; a request is in flight only when the history ends with a user
\* message or with the last tool message of a response; and a response
\* without tool calls leaves no request in flight.
C28_ToolMessagesBeforeNextRequest ==
    planner # Off =>
      LET ms == planner.messages
          tool == SelectSeq(ms, LAMBDA m : m.role = Str("tool"))
          withCalls == {p \in DOMAIN ms : IsResponse(ms[p]) /\ ~NoToolCalls(ms[p])}
      IN  /\ \A p \in withCalls :
                LET toolCalls == ms[p].tool_calls.items
                    n == Answered(planner, p)
                IN  /\ p + n <= Len(ms)
                    /\ \A j \in 1..n :
                          /\ ms[p + j].role = Str("tool")
                          /\ ms[p + j].tool_call_id = Str(toolCalls[j].id)
                    /\ p + n < Len(ms) => ms[p + n + 1].role # Str("tool")
          /\ \A i \in DOMAIN ms :
                ms[i].role = Str("tool") =>
                   \E p \in withCalls : p < i /\ i <= p + Answered(planner, p)
          /\ [i \in DOMAIN tool |-> tool[i].content] = planner.outputs
          /\ planner.pc = "request" =>
                /\ ~IsResponse(ms[Len(ms)])
                /\ ms[Len(ms)].role \in {Str("user"), Str("tool")}
          /\ planner.pc = "tools" =>
                /\ LastResponse(ms) \in withCalls
                /\ planner.toolCalls = ms[LastResponse(ms)].tool_calls.items
                /\ planner.k \in 1..Len(planner.toolCalls)
          /\ (IsResponse(ms[Len(ms)]) /\ NoToolCalls(ms[Len(ms)]))
                => planner.pc \in {"input", "exited"}

\* A response with two calls has been answered by two tool messages and the
\* next request is in flight.
C28_Witness ==
    /\ planner # Off
    /\ planner.pc = "request"
    /\ planner.requests = 2
    /\ Len(planner.outputs) = 2
    /\ \E i \in DOMAIN planner.outputs : "Unknown tool: " \in Pieces(planner.outputs[i])

\* C22: a workflow run that fails, by reporting a failure or by raising,
\* ends with main back at the prompt and the process still running.
C22_FailedRunKeepsLoopAlive ==
    [][( /\ main.pc = "workflow"
         /\ main' # main
         /\ main'.last \in {"reported", "raised"} )
       => main'.pc = "prompt" /\ main'.exitCode = NULL]_vars

\* C23: main enters the request loop only with a usable provider selected;
\* a startup that leaves the manager without one ends the process.
C23_NoProviderIsFatal ==
    [][( /\ main.pc = "init"
         /\ main' # main )
       => IF NoActiveProvider(providers', activeProvider')
          THEN main'.pc = "exited" /\ main'.exitCode = 1
          ELSE main'.pc = "prompt"]_vars

====
